---- MODULE Spec2Model ----
(***************************************************************************)
(* A state-machine model of src/App.js: the user dashboard component.     *)
(*                                                                         *)
(* Hook state (useState) is one variable per hook, under the source's      *)
(* name.  `rendered` is the closure of the last committed render: the      *)
(* values every handler and effect created by that render has captured.    *)
(* Strings are sequences of one-character strings, so that toLowerCase,    *)
(* includes and localeCompare are computed and not assumed.  An optional   *)
(* value (null or a value) is the empty sequence or a one-element one.     *)
(***************************************************************************)
EXTENDS Integers, Sequences, FiniteSets, TLC

VARIABLES
    users,          \* useState([])       line 5
    loading,        \* useState(true)     line 6
    error,          \* useState(null)     line 7
    currentPage,    \* useState(1)        line 8
    search,         \* useState("")       line 9
    companyFilter,  \* useState("")       line 10
    sortOrder,      \* useState("asc")    line 11
    totalPages,     \* useState(0)        line 12
    darkMode,       \* useState(...)      line 13
    rendered,       \* the hook values captured by the last committed render
    filteredUsers,  \* the array useMemo holds (lines 94-115): sort() reorders it in place
    timerLeft,      \* ms until the setTimeout of the last run of the effect of line 87
                    \* fires; NoTimer when it has fired or was cleared
    orphans,        \* the other pending timeouts: set by an earlier run of that effect
                    \* and cleared by no cleanup; each [left, value]
    listening,      \* whether handleScroll is registered on window (lines 50-53)
    inputValue,     \* the DOM value of the (uncontrolled) search input, line 166
    sinceInput,     \* ms since the last input event, saturating at DebounceMs
    storage,        \* localStorage["darkMode"]: optional string
    url,            \* window.location.search: [search, company], optional strings
    server,         \* what the remote endpoint answers to the GET of line 22
    fetchState,     \* "idle" | "inflight" | "settled"
    fetches,        \* number of fetch() calls made
    phase           \* "init" (first render done, effects not yet run) | "mounted" |
                    \* "unmounted" | "crashed" (unmounted by React after an uncaught error)

hooks == <<users, loading, error, currentPage, search, companyFilter, sortOrder,
           totalPages, darkMode>>
query == <<loading, error, currentPage, search, companyFilter, sortOrder,
           totalPages, darkMode>>
env == <<url, server>>
vars == <<users, loading, error, currentPage, search, companyFilter, sortOrder,
          totalPages, darkMode, rendered, filteredUsers, timerLeft, orphans, listening,
          inputValue, sinceInput, storage, url, server, fetchState, fetches, phase>>

-----------------------------------------------------------------------------
(* Bounds of the model and constants of the program *)

usersPerPage == 5
DebounceMs == 300
NearBottomPx == 5
MaxPage == 4
TickMs == 100
NoTimer == 0 - 1

None == <<>>
Some(v) == <<v>>

Min(a, b) == IF a <= b THEN a ELSE b
Max(a, b) == IF a >= b THEN a ELSE b

-----------------------------------------------------------------------------
(* Strings *)

LowerLetters == <<"a","b","c","d","e","f","g","h","i","j","k","l","m",
                  "n","o","p","q","r","s","t","u","v","w","x","y","z">>
UpperLetters == <<"A","B","C","D","E","F","G","H","I","J","K","L","M",
                  "N","O","P","Q","R","S","T","U","V","W","X","Y","Z">>
Letters == {LowerLetters[i] : i \in 1..26} \cup {UpperLetters[i] : i \in 1..26}

\* The alphabet position of a letter, whatever its case.
Rank == [c \in Letters |-> CHOOSE i \in 1..26 : LowerLetters[i] = c \/ UpperLetters[i] = c]

\* String.prototype.toLowerCase
toLowerCase(s) == [i \in 1..Len(s) |-> LowerLetters[Rank[s[i]]]]

\* String.prototype.includes: t occurs in s as a contiguous substring
includes(s, t) ==
    \E i \in 0..(Len(s) - Len(t)) : SubSeq(s, i + 1, i + Len(t)) = t

\* String.prototype.localeCompare on lower-case letter strings: -1, 0 or 1
RECURSIVE localeCompare(_, _)
localeCompare(a, b) ==
    IF a = <<>> /\ b = <<>> THEN 0
    ELSE IF a = <<>> THEN 0 - 1
    ELSE IF b = <<>> THEN 1
    ELSE IF Rank[Head(a)] < Rank[Head(b)] THEN 0 - 1
    ELSE IF Rank[Head(a)] > Rank[Head(b)] THEN 1
    ELSE localeCompare(Tail(a), Tail(b))

\* Fault injection for BoolStr: the flag is stored as a digit.
BoolStr_Digit(b) == IF b THEN "1" ELSE "0"

\* String(boolean), as localStorage.setItem coerces its value
BoolStr(b) == IF b THEN "true" ELSE "false"

-----------------------------------------------------------------------------
(* The records the endpoint may return *)

User(i, n, c) == [id |-> i, name |-> n, company |-> c]

Acme == <<"A","c","m","e">>
Globex == <<"G","l","o","b","e","x">>

John == <<"J","o","h","n">>
Bob == <<"B","o","b">>
Rose == <<"R","o","s","e">>

Three == << User(1, John, Acme), User(2, Bob, Globex), User(3, Rose, Acme) >>

Twelve ==
    << User(1, <<"K","i","m">>, Acme),      User(2, <<"A","l","i","c","e">>, Globex),
       User(3, <<"J","o">>, Acme),          User(4, <<"B","o","b">>, Globex),
       User(5, <<"I","d","a">>, Acme),      User(6, <<"C","y">>, Globex),
       User(7, <<"H","a","l">>, Acme),      User(8, <<"D","e","e">>, Globex),
       User(9, <<"G","u","s">>, Acme),      User(10, <<"E","d">>, Globex),
       User(11, <<"F","l","o">>, Acme),     User(12, <<"A","l","i">>, Globex) >>

\* names that differ only in the case of their letters
MixedCase == << User(1, <<"B","o">>, Acme), User(2, <<"a","l">>, Acme),
                User(3, <<"A","l">>, Globex) >>

Responses == { <<>>, Three, Twelve, MixedCase }

\* the ways the single GET can end
Outcomes ==
    { [kind |-> "ok", data |-> d] : d \in Responses }
    \cup { [kind |-> k, data |-> <<>>] : k \in {"network", "http", "parse"} }

\* err.message of what line 29 catches
ErrorMessage(kind) ==
    CASE kind = "network" -> "Failed to fetch"
      [] kind = "http" -> "Failed to fetch data."
      [] kind = "parse" -> "Unexpected end of JSON input"

\* what a user may type or paste into the search box
SearchTexts == { <<>>, <<"o">>, <<"a">>, <<"a","l">>, <<"a","l","i">>,
                 <<"a","l","i","c","e">> }

\* the query strings the page may be opened with
UrlSearches == { None, Some(<<"A","L">>) }
UrlCompanies == { None, Some(<<"a","c","m","e">>) }

StoredValues == { None, Some("true"), Some("false"), Some("1") }

-----------------------------------------------------------------------------
(* The derivation of lines 93-119 *)

\* Fault injection for isMatch: the name test forgets toLowerCase.
isMatch_CaseSensitive(user, s, cf) ==
    LET isNameMatch == includes(user.name, s)
        isCompanyMatch == IF cf # <<>>
                          THEN toLowerCase(user.company) = toLowerCase(cf)
                          ELSE TRUE
    IN  isNameMatch /\ isCompanyMatch

\* the predicate of users.filter, lines 95-101
isMatch(user, s, cf) ==
    LET isNameMatch == includes(toLowerCase(user.name), toLowerCase(s))
        isCompanyMatch == IF cf # <<>>
                          THEN toLowerCase(user.company) = toLowerCase(cf)
                          ELSE TRUE
    IN  isNameMatch /\ isCompanyMatch

\* users.filter(...), a new array in the order of users
Filter(us, s, cf) == SelectSeq(us, LAMBDA u : isMatch(u, s, cf))

\* Fault injection for compare: the sort order is ignored.
compare_IgnoresOrder(a, b, order) ==
    localeCompare(toLowerCase(a.name), toLowerCase(b.name))

\* the comparator of lines 106-114
compare(a, b, order) ==
    LET nameA == toLowerCase(a.name)
        nameB == toLowerCase(b.name)
    IN  IF order = "asc" THEN localeCompare(nameA, nameB)
        ELSE localeCompare(nameB, nameA)

\* insert x after every element that does not compare greater than it
RECURSIVE InsertSorted(_, _, _)
InsertSorted(x, s, order) ==
    IF s = <<>> THEN <<x>>
    ELSE IF compare(x, Head(s), order) < 0 THEN <<x>> \o s
    ELSE <<Head(s)>> \o InsertSorted(x, Tail(s), order)

\* Array.prototype.sort with the comparator: a stable sort
RECURSIVE Sort(_, _)
Sort(s, order) ==
    IF s = <<>> THEN <<>>
    ELSE InsertSorted(s[Len(s)], Sort(SubSeq(s, 1, Len(s) - 1), order), order)

\* Fault injection for slice: the end index is taken as inclusive.
slice_EndInclusive(s, from, to) == SubSeq(s, Max(from, 0) + 1, Min(to + 1, Len(s)))

\* Array.prototype.slice(from, to)
slice(s, from, to) == SubSeq(s, Max(from, 0) + 1, Min(to, Len(s)))

\* lines 117-119 for page p of the sequence s
PageAt(s, p) == slice(s, p * usersPerPage - usersPerPage, p * usersPerPage)

\* lines 117-119
currentUsers ==
    LET indexOfLastUser == rendered.currentPage * usersPerPage
        indexOfFirstUser == indexOfLastUser - usersPerPage
    IN  slice(filteredUsers, indexOfFirstUser, indexOfLastUser)

\* Math.ceil(a / b) for a >= 0, b > 0
CeilDiv(a, b) == (a + b - 1) \div b

-----------------------------------------------------------------------------
(* Rendering *)

\* the hook values a render reads
Closure ==
    [users |-> users, loading |-> loading, error |-> error,
     currentPage |-> currentPage, search |-> search,
     companyFilter |-> companyFilter, sortOrder |-> sortOrder,
     totalPages |-> totalPages, darkMode |-> darkMode]

\* a state update is queued and no render has committed it yet
Dirty == rendered # Closure

\* which of the three returns (lines 128, 136, 144) the last render took
View == IF rendered.loading THEN "spinner"
        ELSE IF rendered.error # None THEN "error"
        ELSE "dashboard"

\* Fault injection for Memo: a sort toggle reverses the array it holds
\* instead of sorting it again.
Memo_ReversesOnToggle ==
    IF \/ users # rendered.users
       \/ search' # rendered.search
       \/ companyFilter' # rendered.companyFilter
    THEN Sort(Filter(users, search', companyFilter'), sortOrder')
    ELSE IF sortOrder' # rendered.sortOrder
    THEN [i \in 1..Len(filteredUsers) |-> filteredUsers[Len(filteredUsers) + 1 - i]]
    ELSE filteredUsers

\* useMemo of lines 94-115 during a render of users and the primed query
\* values: filteredUsers is recomputed when users, search or companyFilter
\* changed; sortedUsers sorts that same array in place when it or sortOrder
\* changed.
Memo ==
    IF \/ users # rendered.users
       \/ search' # rendered.search
       \/ companyFilter' # rendered.companyFilter
    THEN Sort(Filter(users, search', companyFilter'), sortOrder')
    ELSE IF sortOrder' # rendered.sortOrder
    THEN Sort(filteredUsers, sortOrder')
    ELSE filteredUsers

\* Fault injection for filterReturnsReceiver: with nothing to filter out,
\* the users array itself is handed on.
filterReturnsReceiver_WhenUnfiltered(us, s, cf) == s = <<>> /\ cf = <<>>

\* Whether users.filter(...) of line 95 returns the array it was called on:
\* Array.prototype.filter always creates a new array.
filterReturnsReceiver(us, s, cf) == FALSE

\* Fault injection for DebounceEffect: the effect returns no cleanup, so
\* the timer of the previous run stays scheduled.
DebounceEffect_NoCleanup ==
    IF search' # rendered.search
    THEN /\ timerLeft' = DebounceMs
         /\ orphans' = orphans \cup
                (IF timerLeft # NoTimer
                 THEN {[left |-> timerLeft, value |-> rendered.search]}
                 ELSE {})
    ELSE UNCHANGED <<timerLeft, orphans>>

\* The effect of lines 86-91 when a render commits: with search changed,
\* the cleanup of the previous run clears its timer (line 90) and a new
\* timer is set (line 87); otherwise the effect does not run.
DebounceEffect ==
    IF search' # rendered.search
    THEN /\ timerLeft' = DebounceMs
         /\ orphans' = orphans
    ELSE UNCHANGED <<timerLeft, orphans>>

\* the effects of a commit ran to their end
EffectsRan ==
    /\ DebounceEffect
    /\ listening' = TRUE
    /\ phase' = phase

\* An effect threw and nothing caught it: React unmounts the tree, which
\* runs the cleanups of lines 52-54 and 90.
EffectThrew ==
    /\ phase' = "crashed"
    /\ listening' = FALSE
    /\ timerLeft' = NoTimer
    /\ orphans' = orphans

\* A render of users and the primed query values commits and its effects
\* run: sort() reorders the array filter() returned (lines 94-115), the
\* scroll effect (39-55) re-subscribes with the new closure, the darkMode
\* effect (65-72) calls localStorage.setItem, which stores the value or
\* throws (no quota, storage disabled), the debounce effect (86-91) runs.
Commit ==
    /\ filteredUsers' = Memo
    /\ users' = IF filterReturnsReceiver(users, search', companyFilter') THEN Memo
                ELSE users
    /\ rendered' = Closure'
    /\ IF darkMode' # rendered.darkMode
       THEN \/ storage' = Some(BoolStr(darkMode')) /\ EffectsRan
            \/ storage' = storage /\ EffectThrew
       ELSE storage' = storage /\ EffectsRan

-----------------------------------------------------------------------------
(* Initial state: the first render has run the useState initialisers *)

Init ==
    /\ url \in [search : UrlSearches, company : UrlCompanies]
    /\ server \in Outcomes
    /\ storage \in StoredValues
    /\ users = <<>>
    /\ loading = TRUE
    /\ error = None
    /\ currentPage = 1
    /\ search = <<>>
    /\ companyFilter = <<>>
    /\ sortOrder = "asc"
    /\ totalPages = 0
    /\ darkMode = (storage = Some("true"))
    /\ rendered = [users |-> <<>>, loading |-> TRUE, error |-> None,
                   currentPage |-> 1, search |-> <<>>, companyFilter |-> <<>>,
                   sortOrder |-> "asc", totalPages |-> 0,
                   darkMode |-> (storage = Some("true"))]
    /\ filteredUsers = <<>>
    /\ timerLeft = NoTimer
    /\ orphans = {}
    /\ listening = FALSE
    /\ inputValue = <<>>
    /\ sinceInput = DebounceMs
    /\ fetchState = "idle"
    /\ fetches = 0
    /\ phase = "init"

-----------------------------------------------------------------------------
(* Operations *)

\* Fault injection for Mount: the company parameter is read and not applied.
Mount_NoCompanySeed ==
    /\ phase = "init"
    /\ fetches' = fetches + 1
    /\ fetchState' = "inflight"
    /\ search' = IF url.search # None /\ url.search[1] # <<>> THEN url.search[1] ELSE search
    /\ companyFilter' = companyFilter
    /\ \/ /\ storage' = Some(BoolStr(darkMode))
          /\ phase' = "mounted"
          /\ listening' = TRUE
          /\ timerLeft' = DebounceMs
       \/ /\ storage' = storage
          /\ phase' = "crashed"
          /\ listening' = FALSE
          /\ timerLeft' = NoTimer
    /\ UNCHANGED <<users, loading, error, currentPage, sortOrder, totalPages, darkMode,
                   rendered, filteredUsers, orphans, inputValue, sinceInput, env>>

\* The effects of the first commit, in source order: fetchUsers() is called
\* (19-37), handleScroll is registered (39-55), the URL parameters seed
\* search and companyFilter (57-63), darkMode is saved (65-72), the first
\* debounce timer is set (86-91).  localStorage.setItem stores the value or
\* throws; an error thrown by an effect unmounts the tree.
Mount ==
    /\ phase = "init"
    /\ fetches' = fetches + 1
    /\ fetchState' = "inflight"
    /\ search' = IF url.search # None /\ url.search[1] # <<>> THEN url.search[1] ELSE search
    /\ companyFilter' = IF url.company # None /\ url.company[1] # <<>>
                        THEN url.company[1] ELSE companyFilter
    /\ \/ /\ storage' = Some(BoolStr(darkMode))
          /\ phase' = "mounted"
          /\ listening' = TRUE
          /\ timerLeft' = DebounceMs
       \/ /\ storage' = storage
          /\ phase' = "crashed"
          /\ listening' = FALSE
          /\ timerLeft' = NoTimer
    /\ UNCHANGED <<users, loading, error, currentPage, sortOrder, totalPages, darkMode,
                   rendered, filteredUsers, orphans, inputValue, sinceInput, env>>

\* React renders the queued updates and runs the effects.
Render ==
    /\ phase = "mounted"
    /\ Dirty
    /\ UNCHANGED query
    /\ Commit
    /\ UNCHANGED <<inputValue, sinceInput, env, fetchState, fetches>>

\* Fault injection for FetchSettled: a failed attempt is tried again.
FetchSettled_Retry ==
    /\ fetchState = "inflight"
    /\ IF phase = "mounted" /\ server.kind = "ok"
       THEN /\ users' = server.data
            /\ totalPages' = CeilDiv(Len(server.data), usersPerPage)
            /\ loading' = FALSE
            /\ fetchState' = "settled"
            /\ fetches' = fetches
       ELSE /\ fetchState' = "inflight"
            /\ fetches' = fetches + 1
            /\ UNCHANGED <<users, totalPages, loading>>
    /\ UNCHANGED <<error, currentPage, search, companyFilter, sortOrder, darkMode, rendered,
                   filteredUsers, timerLeft, orphans, listening, inputValue, sinceInput,
                   storage, env, phase>>

\* Fault injection for FetchSettled: the records are stored before the
\* response is known to be good, so a failure keeps them.
FetchSettled_KeepsData ==
    /\ fetchState = "inflight"
    /\ fetchState' = "settled"
    /\ IF phase = "mounted"
       THEN /\ users' = IF server.kind = "ok" THEN server.data ELSE Three
            /\ totalPages' = CeilDiv(Len(users'), usersPerPage)
            /\ error' = IF server.kind = "ok" THEN error
                        ELSE Some(ErrorMessage(server.kind))
            /\ loading' = FALSE
       ELSE UNCHANGED <<users, totalPages, error, loading>>
    /\ UNCHANGED <<currentPage, search, companyFilter, sortOrder, darkMode, rendered,
                   filteredUsers, timerLeft, orphans, listening, inputValue, sinceInput,
                   storage, env, fetches, phase>>

\* The continuation of fetchUsers after the awaits, lines 23-33.
\* On an unmounted component the setters do nothing.
FetchSettled ==
    /\ fetchState = "inflight"
    /\ fetchState' = "settled"
    /\ IF phase = "mounted"
       THEN IF server.kind = "ok"
            THEN /\ users' = server.data
                 /\ totalPages' = CeilDiv(Len(server.data), usersPerPage)
                 /\ error' = error
                 /\ loading' = FALSE
            ELSE /\ error' = Some(ErrorMessage(server.kind))
                 /\ loading' = FALSE
                 /\ UNCHANGED <<users, totalPages>>
       ELSE UNCHANGED <<users, totalPages, error, loading>>
    /\ UNCHANGED <<currentPage, search, companyFilter, sortOrder, darkMode, rendered,
                   filteredUsers, timerLeft, orphans, listening, inputValue, sinceInput,
                   storage, env, fetches, phase>>

\* Fault injection for handleScroll: the test currentPage < totalPages is missing.
handleScroll_NoPageTest(distance) ==
    /\ phase = "mounted"
    /\ listening
    /\ currentPage' = IF distance <= NearBottomPx /\ currentPage < MaxPage
                      THEN currentPage + 1
                      ELSE currentPage
    /\ UNCHANGED <<users, loading, error, search, companyFilter, sortOrder, totalPages,
                   darkMode, rendered, filteredUsers, timerLeft, orphans, listening,
                   inputValue, sinceInput, storage, env, fetchState, fetches, phase>>

\* handleScroll, lines 40-48, with the currentPage and totalPages of the
\* render that registered it; distance is scrollHeight - (innerHeight + scrollTop).
handleScroll(distance) ==
    /\ phase = "mounted"
    /\ listening
    /\ currentPage' = IF /\ distance <= NearBottomPx
                         /\ rendered.currentPage < rendered.totalPages
                         /\ currentPage < MaxPage
                      THEN currentPage + 1
                      ELSE currentPage
    /\ UNCHANGED <<users, loading, error, search, companyFilter, sortOrder, totalPages,
                   darkMode, rendered, filteredUsers, timerLeft, orphans, listening,
                   inputValue, sinceInput, storage, env, fetchState, fetches, phase>>

\* onChange of the search input, lines 79-84 and 170: debounceSearch(e)
debounceSearch(value) ==
    /\ phase = "mounted"
    /\ View = "dashboard"
    /\ value # inputValue
    /\ inputValue' = value
    /\ sinceInput' = 0
    /\ search' = value
    /\ UNCHANGED <<loading, error, currentPage, companyFilter, sortOrder,
                   totalPages, darkMode>>
    /\ Commit
    /\ UNCHANGED <<env, fetchState, fetches>>

\* Fault injection for TimerFired: the commit of the search text also
\* goes back to the first page.
TimerFired_ResetsPage ==
    /\ \/ /\ timerLeft = 0
          /\ timerLeft' = NoTimer
          /\ orphans' = orphans
          /\ search' = IF phase = "mounted" THEN rendered.search ELSE search
       \/ \E t \in orphans :
             /\ t.left = 0
             /\ orphans' = orphans \ {t}
             /\ timerLeft' = timerLeft
             /\ search' = IF phase = "mounted" THEN t.value ELSE search
    /\ currentPage' = IF phase = "mounted" THEN 1 ELSE currentPage
    /\ UNCHANGED <<users, loading, error, companyFilter, sortOrder,
                   totalPages, darkMode, rendered, filteredUsers, listening, inputValue,
                   sinceInput, storage, env, fetchState, fetches, phase>>

\* The callback of setTimeout, line 88: debounceSearch with the search its
\* render captured.  The timer is the one of the last run of the effect or
\* one no cleanup cleared; on an unmounted component setSearch does nothing.
TimerFired ==
    /\ \/ /\ timerLeft = 0
          /\ timerLeft' = NoTimer
          /\ orphans' = orphans
          /\ search' = IF phase = "mounted" THEN rendered.search ELSE search
       \/ \E t \in orphans :
             /\ t.left = 0
             /\ orphans' = orphans \ {t}
             /\ timerLeft' = timerLeft
             /\ search' = IF phase = "mounted" THEN t.value ELSE search
    /\ UNCHANGED <<users, loading, error, currentPage, companyFilter, sortOrder,
                   totalPages, darkMode, rendered, filteredUsers, listening, inputValue,
                   sinceInput, storage, env, fetchState, fetches, phase>>

\* the options of the company select, line 178
CompanyOptions == {<<>>} \cup {rendered.users[i].company : i \in 1..Len(rendered.users)}

\* onChange of the company select, line 175
setCompanyFilter(value) ==
    /\ phase = "mounted"
    /\ View = "dashboard"
    /\ value \in CompanyOptions
    /\ companyFilter' = value
    /\ UNCHANGED <<loading, error, currentPage, search, sortOrder, totalPages,
                   darkMode>>
    /\ Commit
    /\ UNCHANGED <<inputValue, sinceInput, env, fetchState, fetches>>

\* onClick of the sort button, line 214
toggleSortOrder ==
    /\ phase = "mounted"
    /\ View = "dashboard"
    /\ sortOrder' = IF rendered.sortOrder = "asc" THEN "desc" ELSE "asc"
    /\ UNCHANGED <<loading, error, currentPage, search, companyFilter,
                   totalPages, darkMode>>
    /\ Commit
    /\ UNCHANGED <<inputValue, sinceInput, env, fetchState, fetches>>

\* the updater of changePage, lines 122-125
newPage(prevPage, direction, total) == Min(Max(prevPage + direction, 1), total)

\* onClick of Prev (224-225) and Next (234-235); a disabled button does not click
changePage(direction) ==
    /\ phase = "mounted"
    /\ View = "dashboard"
    /\ IF direction = 1 THEN rendered.currentPage # rendered.totalPages
       ELSE rendered.currentPage # 1
    /\ currentPage' = newPage(currentPage, direction, rendered.totalPages)
    /\ UNCHANGED <<loading, error, search, companyFilter, sortOrder, totalPages,
                   darkMode>>
    /\ Commit
    /\ UNCHANGED <<inputValue, sinceInput, env, fetchState, fetches>>

\* onClick of the theme button, lines 74-76 and 153
toggleDarkMode ==
    /\ phase = "mounted"
    /\ View = "dashboard"
    /\ darkMode' = ~darkMode
    /\ UNCHANGED <<loading, error, currentPage, search, companyFilter, sortOrder,
                   totalPages>>
    /\ Commit
    /\ UNCHANGED <<inputValue, sinceInput, env, fetchState, fetches>>

\* TickMs of time pass.  A queued render and a due timer run before that.
Tick ==
    /\ phase = "mounted"
    /\ ~Dirty
    /\ timerLeft # 0
    /\ \A t \in orphans : t.left # 0
    /\ \/ sinceInput < DebounceMs
       \/ timerLeft > 0
       \/ orphans # {}
    /\ sinceInput' = Min(sinceInput + TickMs, DebounceMs)
    /\ timerLeft' = IF timerLeft > 0 THEN Max(timerLeft - TickMs, 0) ELSE timerLeft
    /\ orphans' = {[left |-> Max(t.left - TickMs, 0), value |-> t.value] : t \in orphans}
    /\ UNCHANGED <<hooks, rendered, filteredUsers, listening, inputValue, storage, env,
                   fetchState, fetches, phase>>

\* The component is torn down: the cleanups of lines 52-54 and 90 run.
Unmount ==
    /\ phase = "mounted"
    /\ phase' = "unmounted"
    /\ listening' = FALSE
    /\ timerLeft' = NoTimer
    /\ UNCHANGED <<hooks, rendered, filteredUsers, orphans, inputValue, sinceInput,
                   storage, env, fetchState, fetches>>

ScrollDistances == {0, NearBottomPx, NearBottomPx + 1}

Next ==
    \/ Mount
    \/ Render
    \/ FetchSettled
    \/ \E d \in ScrollDistances : handleScroll(d)
    \/ \E v \in SearchTexts : debounceSearch(v)
    \/ TimerFired
    \/ \E c \in {<<>>, Acme, Globex} : setCompanyFilter(c)
    \/ toggleSortOrder
    \/ \E d \in {0 - 1, 1} : changePage(d)
    \/ toggleDarkMode
    \/ Tick
    \/ Unmount

Spec == Init /\ [][Next]_vars

-----------------------------------------------------------------------------
(* Vocabulary of the properties *)

\* the collection status of the data model
Status == IF loading THEN "Pending"
          ELSE IF error # None THEN "Failed"
          ELSE "Ready"

\* the records matching the current searchText and categoryFilter
FilteredCount == Len(Filter(users, search, companyFilter))

\* pageCount = ceil(filteredCount / pageSize)
PageCount == CeilDiv(FilteredCount, usersPerPage)

\* two letters are the same letter, whatever their case
SameLetter(x, y) == Rank[x] = Rank[y]

\* text occurs in name as a case-insensitive substring
ContainsIgnoringCase(name, text) ==
    \E k \in 0..(Len(name) - Len(text)) :
        \A m \in 1..Len(text) : SameLetter(name[k + m], text[m])

\* a and b are equal case-insensitively
EqualsIgnoringCase(a, b) ==
    /\ Len(a) = Len(b)
    /\ \A m \in 1..Len(a) : SameLetter(a[m], b[m])

\* the record belongs to the filtered set as section 4.4 step 1 defines it
Matches(u, text, category) ==
    /\ ContainsIgnoringCase(u.name, text)
    /\ category = <<>> \/ EqualsIgnoringCase(u.company, category)

Elements(s) == {s[i] : i \in 1..Len(s)}
Names(s) == {s[i].name : i \in 1..Len(s)}
Reverse(s) == [i \in 1..Len(s) |-> s[Len(s) + 1 - i]]

\* all names of the collection are distinct
DistinctNames(us) ==
    \A i, j \in 1..Len(us) : i # j => us[i].name # us[j].name

\* all names of the collection are distinct even when case is ignored
DistinctNamesIgnoringCase(us) ==
    \A i, j \in 1..Len(us) : i # j => ~EqualsIgnoringCase(us[i].name, us[j].name)

ScrollEvent == \E d \in ScrollDistances : handleScroll(d)

-----------------------------------------------------------------------------
(* Properties *)

\* C1: a change of searchText that the search input causes happens only
\* once the input has been quiet for the 300 ms following its last event,
\* and it commits the value of that last event; no value is committed at
\* the moment it is typed.
C1_CommitOnlyAfterQuiet ==
    [][(phase = "mounted" /\ search' # search)
         => (sinceInput' >= DebounceMs /\ search' = inputValue')]_vars

\* C2: in every reachable state 1 <= pageIndex <= max(1, pageCount), with
\* pageCount computed from the records matching the current searchText and
\* categoryFilter.
C2_PageIndexClamped ==
    /\ 1 <= currentPage
    /\ currentPage <= Max(1, PageCount)

\* C3: once the collection is Ready, the page count the program holds is
\* ceil(filteredCount / pageSize) for the current searchText and
\* categoryFilter.
C3_PageCountFollowsFilter ==
    Status = "Ready" => totalPages = PageCount

\* C4: a scroll event never decreases pageIndex and never moves it past
\* the page count, also when the handler that runs was registered by an
\* earlier render.
C4_ScrollStaysInRange ==
    [][ScrollEvent =>
         /\ currentPage' >= currentPage
         /\ currentPage' # currentPage => currentPage' <= totalPages]_vars

\* C5: pageIndex is at least 1 in every reachable state, and with an empty
\* loaded collection it stays 1 and the displayed page is empty.
C5_PageIndexAtLeastOne ==
    /\ currentPage >= 1
    /\ (Status = "Ready" /\ users = <<>>) => (currentPage = 1 /\ currentUsers = <<>>)

C7_StatusLifecycle ==
    /\ Status = "Pending"
    /\ [][/\ Status' # Status =>
               /\ Status = "Pending"
               /\ Status' \in {"Ready", "Failed"}
               /\ fetchState = "inflight" /\ fetchState' = "settled"
          /\ fetchState' # "settled" => Status' = "Pending"
          /\ fetches' <= 1
          /\ phase' # "init" => fetches' = 1]_vars

\* the collection is Ready and a later event (a page change) has happened
C7_Witness ==
    /\ Status = "Ready"
    /\ fetchState = "settled"
    /\ currentPage = 2
    /\ sortOrder = "desc"

\* C8: a failed fetch leaves a non-empty reason, no items and page count
\* 0; a successful one leaves no error and the received sequence in the
\* received order; items never coexist with an error.
C8_FetchOutcome ==
    /\ error # None =>
          /\ error[1] # ""
          /\ users = <<>>
          /\ totalPages = 0
          /\ server.kind # "ok"
    /\ ~loading =>
          IF server.kind = "ok"
          THEN error = None /\ users = server.data
          ELSE error # None
    /\ users # <<>> => error = None

\* the fetch has failed with a non-OK response and the error view is shown
C8_Witness ==
    /\ server.kind = "http"
    /\ Status = "Failed"
    /\ View = "error"

\* the filtered set of the last render is the one section 4.4 defines
FilterRule ==
    /\ Elements(filteredUsers) \subseteq Elements(rendered.users)
    /\ \A u \in Elements(rendered.users) :
          u \in Elements(filteredUsers)
             <=> Matches(u, rendered.search, rendered.companyFilter)
    /\ rendered.search = <<>> =>
          \A u \in Elements(rendered.users) :
             u \in Elements(filteredUsers)
                <=> (rendered.companyFilter = <<>>
                       \/ EqualsIgnoringCase(u.company, rendered.companyFilter))
    /\ rendered.companyFilter = <<>> =>
          Elements(filteredUsers) =
             {u \in Elements(rendered.users) : ContainsIgnoringCase(u.name, rendered.search)}

\* the records John, Bob, Rose are filtered by the text 'o' alone
ExampleShown ==
    /\ rendered.users = Three
    /\ rendered.search = <<"o">>
    /\ rendered.companyFilter = <<>>

\* C9 as stated: the filter rule, and John, Bob, Rose with 'o' give {John, Rose}.
C9_FilterRuleOriginal ==
    /\ FilterRule
    /\ ExampleShown => Names(filteredUsers) = {John, Rose}

\* C9 (amended): the filtered set contains a record iff its name contains
\* searchText as a case-insensitive substring and categoryFilter is empty
\* or equals its company name case-insensitively; an empty searchText
\* matches every record; John, Bob, Rose with 'o' give {John, Bob, Rose}.
C9_FilterRule ==
    /\ FilterRule
    /\ ExampleShown => Names(filteredUsers) = {John, Bob, Rose}

\* the example of C9 has been rendered
C9_Witness ==
    /\ ExampleShown
    /\ Len(filteredUsers) = 3
    /\ inputValue = <<"o">>

\* the ascending result for the filter of the last render
AscendingView ==
    Sort(Filter(rendered.users, rendered.search, rendered.companyFilter), "asc")

FreshView ==
    Sort(Filter(rendered.users, rendered.search, rendered.companyFilter),
         rendered.sortOrder)

\* C11: the sequence the program holds, and the page it shows, are the ones
\* a fresh derivation gives for the rendered collection, searchText,
\* categoryFilter, sortDirection and pageIndex, whatever events came before
\* (in-place re-sorts of the memoised array included).
C11_NoHiddenState ==
    /\ filteredUsers = FreshView
    /\ currentUsers = slice(FreshView,
                            rendered.currentPage * usersPerPage - usersPerPage,
                            rendered.currentPage * usersPerPage)

\* records whose names tie have been re-sorted in place to descending order
C11_Witness ==
    /\ rendered.users = MixedCase
    /\ rendered.sortOrder = "desc"
    /\ rendered.search = <<>>
    /\ filteredUsers = <<MixedCase[1], MixedCase[2], MixedCase[3]>>

\* C12: the URL is never written; the effects of the first commit leave
\* searchText and categoryFilter at the values of the URL parameters search
\* and company (at their defaults when a parameter is absent) and the rest
\* of the Query State at its defaults, which is the Query State that
\* setting the two fields directly gives; and once rendered, before or after
\* the fetch completed, the filtered set is the one of those two fields.
C12_UrlSeeding ==
    /\ [][/\ url' = url
          /\ (phase = "init" /\ phase' # "init") =>
                /\ url.search = None => search' = <<>>
                /\ url.search # None => search' = url.search[1]
                /\ url.company = None => companyFilter' = <<>>
                /\ url.company # None => companyFilter' = url.company[1]
                /\ currentPage' = 1
                /\ sortOrder' = "asc"]_vars
    /\ []((phase = "mounted" /\ ~Dirty) =>
             Elements(filteredUsers) =
                {u \in Elements(users) : Matches(u, search, companyFilter)})

\* both parameters were given and the seeded filter has been rendered
C12_Witness ==
    /\ phase = "mounted"
    /\ url.search = Some(<<"A","L">>)
    /\ url.company = Some(<<"a","c","m","e">>)
    /\ users = Twelve
    /\ ~Dirty
    /\ search = <<"A","L">>
    /\ companyFilter = <<"a","c","m","e">>
    /\ inputValue = <<>>
    /\ Names(filteredUsers) = {<<"H","a","l">>}

\* C13: before the effects of the first commit, darkTheme is true iff the
\* store holds 'true'; from then on, while the component lives and after
\* it was torn down, the store holds the string form of darkTheme.
C13_PreferencePersisted ==
    /\ phase = "init" => (darkMode <=> storage = Some("true"))
    /\ phase \in {"mounted", "unmounted"} =>
          storage = Some(IF darkMode THEN "true" ELSE "false")

\* the dashboard is shown in the dark theme and the store says so
C13_Witness ==
    /\ phase = "mounted"
    /\ View = "dashboard"
    /\ rendered.darkMode
    /\ storage = Some("true")

\* C14: a failing preference write never ends the session: no error state
\* is entered and the component keeps responding to events.
C14_StorageFailureSwallowed == phase # "crashed"

\* the timeouts of the debounce effect that are pending
PendingTimers == (IF timerLeft # NoTimer THEN 1 ELSE 0) + Cardinality(orphans)

\* C15: at most one debounce timer is pending; an input that changes the
\* search text leaves exactly one, with the full delay ahead; after
\* teardown none is pending and the Query State never changes again.
C15_OneTimer ==
    /\ [](PendingTimers <= 1)
    /\ [](phase \in {"unmounted", "crashed"} => PendingTimers = 0)
    /\ [][/\ (phase = "mounted" /\ phase' = "mounted" /\ inputValue' # inputValue) =>
                (timerLeft' = DebounceMs /\ PendingTimers' = 1)
          /\ phase \in {"unmounted", "crashed"} =>
                UNCHANGED <<search, companyFilter, sortOrder, currentPage>>]_vars

\* the component was torn down less than 300 ms after an input
C15_Witness ==
    /\ phase = "unmounted"
    /\ inputValue = <<"a","l">>
    /\ sinceInput < DebounceMs
    /\ PendingTimers = 0

\* C16: once something was typed, searchText is the value typed last; the
\* firing of the timer leaves searchText at that value and leaves
\* categoryFilter, sortDirection and pageIndex as they are.
C16_TimerKeepsLastWrites ==
    /\ [](inputValue # <<>> => search = inputValue)
    /\ [][TimerFired =>
            /\ search' = search
            /\ UNCHANGED <<companyFilter, sortOrder, currentPage>>]_vars

\* the timer of the input 'a' has fired; the category, sort direction and
\* page set directly stand
C16_Witness ==
    /\ phase = "mounted"
    /\ timerLeft = NoTimer
    /\ inputValue = <<"a">>
    /\ search = <<"a">>
    /\ companyFilter = Globex
    /\ sortOrder = "desc"
    /\ currentPage = 2

\* pages 1..q of s, one after the other
RECURSIVE PagesUpTo(_, _)
PagesUpTo(s, q) == IF q = 0 THEN <<>> ELSE PagesUpTo(s, q - 1) \o PageAt(s, q)

\* C17: for pageIndex >= 1 the displayed page is the elements of
\* filteredSorted at positions (pageIndex-1)*pageSize up to pageIndex*pageSize
\* (exclusive), in order, at most pageSize of them; the pages 1..pageCount
\* one after the other are filteredSorted.
C17_PageSlice ==
    LET n == Len(filteredUsers)
        first == (rendered.currentPage - 1) * usersPerPage
    IN  /\ rendered.currentPage >= 1 =>
              /\ Len(currentUsers) = Max(0, Min(usersPerPage, n - first))
              /\ Len(currentUsers) <= usersPerPage
              /\ \A k \in 1..Len(currentUsers) : currentUsers[k] = filteredUsers[first + k]
        /\ PagesUpTo(filteredUsers, CeilDiv(n, usersPerPage)) = filteredUsers

\* the last page of twelve records is shown: two records
C17_Witness ==
    /\ Len(filteredUsers) = 12
    /\ rendered.currentPage = 3
    /\ Len(currentUsers) = 2

\* C18: once Ready, the stored items are the received sequence and no step
\* changes them.
C18_CollectionUnchanged ==
    /\ [](Status = "Ready" => users = server.data)
    /\ [][Status = "Ready" => users' = users]_vars

\* every record matches and the derived sequence is in another order than
\* the stored one
C18_Witness ==
    /\ Status = "Ready"
    /\ users = Twelve
    /\ rendered.search = <<>>
    /\ rendered.companyFilter = <<>>
    /\ rendered.sortOrder = "desc"
    /\ Len(filteredUsers) = Len(users)
    /\ filteredUsers # users

\* C19: when the dashboard is rendered and at least one record matches the
\* current searchText and categoryFilter, the displayed page is not empty.
C19_MatchingRecordsShown ==
    (phase = "mounted" /\ ~Dirty /\ View = "dashboard" /\ FilteredCount > 0)
        => currentUsers # <<>>

====
